---------------------------- MODULE Spec2Model ----------------------------
(***************************************************************************)
(* Model of ye_pop_to_img2dataset.py: the driver main, the chunk           *)
(* transcoder process_chunk_dir, the writers save_metadata_to_parquet and  *)
(* save_stats_json, and chunk_dirname_to_num.                              *)
(*                                                                         *)
(* Strings are sequences of one-character strings, so that splitting,      *)
(* stripping, formatting and sorting are computed as Python computes them. *)
(***************************************************************************)
EXTENDS Integers, Sequences, FiniteSets

(***************************************************************************)
(* Bounds of the model.                                                    *)
(***************************************************************************)
\* longest chunk directory path handed to process_chunk_dir directly
MaxPathLen == 4
\* most members in one zip namelist (direct call of process_chunk_dir)
MaxMembers == 2
\* most entries under <input_directory>/images/
MaxEntries == 3

(***************************************************************************)
(* Characters and Python's string primitives.                              *)
(***************************************************************************)
Digits == <<"0", "1", "2", "3", "4", "5", "6", "7", "8", "9">>

DigitChars == {Digits[k] : k \in 1..10}

DigitVal(c) == (CHOOSE k \in 1..10 : Digits[k] = c) - 1

\* the characters the model uses, in code point order
CharOrder ==
  <<"+", "-", ".", "/">> \o Digits \o
  <<"_", "a", "b", "c", "d", "e", "f", "g", "h", "i", "j", "k", "l", "m",
    "n", "o", "p", "q", "r", "s", "t", "u", "v", "w", "x", "y", "z">>

Ord(c) == CHOOSE k \in 1..Len(CharOrder) : CharOrder[k] = c

Min(a, b) == IF a < b THEN a ELSE b

Max(a, b) == IF a < b THEN b ELSE a

\* s < t for Python strings: code point order, a proper prefix is smaller
LexLess(s, t) ==
  \E k \in 1..(Min(Len(s), Len(t)) + 1) :
    /\ \A j \in 1..(k - 1) : s[j] = t[j]
    /\ IF k > Len(s) THEN k <= Len(t)
       ELSE k <= Len(t) /\ Ord(s[k]) < Ord(t[k])

\* list.sort() / sorted() on a list of strings
RECURSIVE sorted(_)
sorted(s) ==
  IF s = <<>> THEN <<>>
  ELSE LET x == s[Len(s)]
           r == sorted(SubSeq(s, 1, Len(s) - 1))
           k == Cardinality({j \in 1..Len(r) : ~LexLess(x, r[j])})
       IN SubSeq(r, 1, k) \o <<x>> \o SubSeq(r, k + 1, Len(r))

\* an arbitrary listing order of a set (glob returns directory order)
RECURSIVE SetToSeq(_)
SetToSeq(S) ==
  IF S = {} THEN <<>>
  ELSE LET x == CHOOSE y \in S : TRUE IN <<x>> \o SetToSeq(S \ {x})

\* str.endswith
endswith(s, suffix) ==
  /\ Len(s) >= Len(suffix)
  /\ SubSeq(s, Len(s) - Len(suffix) + 1, Len(s)) = suffix

\* index of the last occurrence of character c in s, 0 when there is none
rfind(s, c) ==
  LET hits == {j \in 1..Len(s) : s[j] = c}
  IN IF hits = {} THEN 0 ELSE CHOOSE j \in hits : \A h \in hits : h <= j

\* s.split(c)[-1]
split_last(s, c) == SubSeq(s, rfind(s, c) + 1, Len(s))

\* s.lstrip(c)
lstrip(s, c) ==
  LET keep == {j \in 1..Len(s) : s[j] # c}
  IN IF keep = {} THEN <<>>
     ELSE SubSeq(s, CHOOSE j \in keep : \A h \in keep : j <= h, Len(s))

\* value of a non-empty sequence of decimal digits
RECURSIVE DecValue(_)
DecValue(s) ==
  IF s = <<>> THEN 0
  ELSE 10 * DecValue(SubSeq(s, 1, Len(s) - 1)) + DigitVal(s[Len(s)])

\* the decimal numeral of n >= 0
RECURSIVE DecString(_)
DecString(n) ==
  IF n < 10 THEN <<Digits[n + 1]>>
  ELSE DecString(n \div 10) \o <<Digits[(n % 10) + 1]>>

\* int(s): an optional sign and at least one decimal digit, else ValueError
int_body(s) == IF s # <<>> /\ s[1] \in {"-", "+"} THEN Tail(s) ELSE s

int_raises(s) ==
  \/ int_body(s) = <<>>
  \/ \E j \in 1..Len(int_body(s)) : int_body(s)[j] \notin DigitChars

int_value(s) ==
  IF s[1] = "-" THEN 0 - DecValue(int_body(s)) ELSE DecValue(int_body(s))

\* f"{n:0<w>d}"
format_0d(n, w) ==
  LET body == DecString(IF n < 0 THEN 0 - n ELSE n)
      sign == IF n < 0 THEN <<"-">> ELSE <<>>
      pad  == Max(0, w - Len(body) - Len(sign))
  IN sign \o [j \in 1..pad |-> "0"] \o body

(***************************************************************************)
(* os.path                                                                 *)
(***************************************************************************)
\* the non-empty components of a path, in order
RECURSIVE components(_)
components(p) ==
  IF p = <<>> THEN <<>>
  ELSE LET slashes == {j \in 1..Len(p) : p[j] = "/"}
           k == IF slashes = {} THEN Len(p) + 1
                ELSE CHOOSE j \in slashes : \A h \in slashes : j <= h
           rest == components(SubSeq(p, k + 1, Len(p)))
       IN IF k = 1 THEN rest ELSE <<SubSeq(p, 1, k - 1)>> \o rest

RECURSIVE join_slash(_)
join_slash(cs) ==
  IF cs = <<>> THEN <<>>
  ELSE IF Len(cs) = 1 THEN cs[1]
  ELSE cs[1] \o <<"/">> \o join_slash(Tail(cs))

\* posixpath.normpath for paths without "." and ".." components
normpath(p) ==
  LET lead == IF p # <<>> /\ p[1] = "/"
              THEN IF Len(p) >= 2 /\ p[2] = "/" /\ ~(Len(p) >= 3 /\ p[3] = "/")
                   THEN <<"/", "/">> ELSE <<"/">>
              ELSE <<>>
      out == lead \o join_slash(components(p))
  IN IF out = <<>> THEN <<".">> ELSE out

\* posixpath.basename
basename(p) == split_last(p, "/")

\* posixpath.splitext(p)[0] for a p without "/"
splitext_root(p) ==
  LET dot == rfind(p, ".")
  IN IF dot > 0 /\ \E j \in 1..(dot - 1) : p[j] # "." THEN SubSeq(p, 1, dot - 1)
     ELSE p

\* os.path.join(a, b) for a relative b
join(a, b) ==
  IF a = <<>> THEN b
  ELSE IF a[Len(a)] = "/" THEN a \o b
  ELSE a \o <<"/">> \o b

(***************************************************************************)
(* chunk_dirname_to_num                                                    *)
(***************************************************************************)
chunk_suffix(chunk_dirname) == split_last(normpath(chunk_dirname), "_")

chunk_dirname_raises(chunk_dirname) == int_raises(chunk_suffix(chunk_dirname))

\* mutant: the index is the suffix itself
chunk_dirname_to_num_no_offset(chunk_dirname) ==
  int_value(chunk_suffix(chunk_dirname))

chunk_dirname_to_num(chunk_dirname) == int_value(chunk_suffix(chunk_dirname)) - 1

(***************************************************************************)
(* Data handled by process_chunk_dir.                                      *)
(***************************************************************************)
Str_jpg == <<".", "j", "p", "g">>

Str_txt == <<".", "t", "x", "t">>

Str_json == <<".", "j", "s", "o", "n">>

Str_tar == <<".", "t", "a", "r">>

Str_parquet == <<".", "p", "a", "r", "q", "u", "e", "t">>

Str_stats_json == <<"_", "s", "t", "a", "t", "s">> \o Str_json

\* the JSON value null; every other JSON value of the model is a string
JNull == <<"null">>

\* choices of --caption
Captions == {"cogvlm_caption", "llava_caption", "alt_txt"}

\* str.encode("utf-8"): "e_acute" stands for U+00E9, which takes two bytes
RECURSIVE encode_utf8(_)
encode_utf8(s) ==
  IF s = <<>> THEN <<>>
  ELSE (IF s[1] = "e_acute" THEN <<"xc3", "xa9">> ELSE <<s[1]>>)
       \o encode_utf8(Tail(s))

\* the image key looked up in the sidecar
image_key_of(member) == lstrip(splitext_root(basename(normpath(member))), "0")

new_basename_of(chunk_num, i) == format_0d(chunk_num, 3) \o format_0d(i, 6)

\* zip.read(member): the bytes stored under that member name
zip_read(member) == <<"bytes of", member>>

metadata_member_of(uid, new_basename, txt_data, json_obj) ==
  [uid |-> uid,
   key |-> new_basename,
   text |-> txt_data,
   original_image_filename |-> json_obj.filename,
   url |-> json_obj.url]

\* json.dumps of the per-item dict: its items in insertion order
dumps(metadata_member) ==
  << <<"uid", metadata_member.uid>>,
     <<"key", metadata_member.key>>,
     <<"text", metadata_member.text>>,
     <<"original_image_filename", metadata_member.original_image_filename>>,
     <<"url", metadata_member.url>> >>

\* the three tar members written for one image
jpg_entry_of(new_basename, member) ==
  [name |-> new_basename \o Str_jpg, data |-> zip_read(member)]

txt_entry_of(new_basename, txt_data) ==
  [name |-> new_basename \o Str_txt, data |-> encode_utf8(txt_data)]

json_entry_of(new_basename, metadata_member) ==
  [name |-> new_basename \o Str_json, data |-> dumps(metadata_member)]

\* mutant: the .txt member is not added
tar_entries_of_no_txt(new_basename, member, metadata_member) ==
  << jpg_entry_of(new_basename, member),
     json_entry_of(new_basename, metadata_member) >>

tar_entries_of(new_basename, member, metadata_member) ==
  << jpg_entry_of(new_basename, member),
     txt_entry_of(new_basename, metadata_member.text),
     json_entry_of(new_basename, metadata_member) >>

empty_metadata ==
  [uid |-> <<>>, key |-> <<>>, text |-> <<>>,
   original_image_filename |-> <<>>, url |-> <<>>]

\* mutant: the url and the original filename land in each other's column
append_metadata_swapped(metadata, metadata_member) ==
  [uid |-> Append(metadata.uid, metadata_member.uid),
   key |-> Append(metadata.key, metadata_member.key),
   text |-> Append(metadata.text, metadata_member.text),
   original_image_filename |->
     Append(metadata.original_image_filename, metadata_member.url),
   url |-> Append(metadata.url, metadata_member.original_image_filename)]

append_metadata(metadata, metadata_member) ==
  [uid |-> Append(metadata.uid, metadata_member.uid),
   key |-> Append(metadata.key, metadata_member.key),
   text |-> Append(metadata.text, metadata_member.text),
   original_image_filename |->
     Append(metadata.original_image_filename,
            metadata_member.original_image_filename),
   url |-> Append(metadata.url, metadata_member.url)]

\* mutant: the members are left in namelist order
jpg_members_unsorted(namelist) ==
  SelectSeq(namelist, LAMBDA member : endswith(member, Str_jpg))

\* jpg_members: the .jpg members of the namelist, sorted
jpg_members_of(namelist) ==
  sorted(SelectSeq(namelist, LAMBDA member : endswith(member, Str_jpg)))

(***************************************************************************)
(* Output files.                                                           *)
(***************************************************************************)
OutputDir == <<"o", "u", "t">>

\* mutant: the tar is named without the chunk index
tar_path_no_index(chunk_num) == join(OutputDir, <<"0", "0", "0">> \o Str_tar)

tar_path(chunk_num) == join(OutputDir, format_0d(chunk_num, 3) \o Str_tar)

parquet_path(chunk_num) == join(OutputDir, format_0d(chunk_num, 3) \o Str_parquet)

\* mutant: the stats file is named without the chunk index
stats_path_no_index(chunk_num) == join(OutputDir, Str_stats_json)

stats_path(chunk_num) == join(OutputDir, format_0d(chunk_num, 3) \o Str_stats_json)

\* tarfile.open(name, "w"): an empty archive, its end not yet written
new_tar == [kind |-> "tar", entries |-> <<>>, complete |-> FALSE]

\* pa.Table.from_pydict + pq.write_table
save_metadata_to_parquet(metadata) ==
  [kind |-> "parquet",
   columns |-> <<"uid", "key", "text", "original_image_filename", "url">>,
   table |-> metadata]

\* mutant: successes is not set from count
save_stats_json_zero_successes(count) ==
  [kind |-> "stats", json |-> << <<"count", count>>, <<"successes", 0>> >>]

\* save_stats_json: the object dumped to the stats file
save_stats_json(count) ==
  [kind |-> "stats", json |-> << <<"count", count>>, <<"successes", count>> >>]

\* len(next(iter(metadata.values()))): the length of the first column
first_column_len(metadata) == Len(metadata.uid)

\* the file system with path p (over)written
write(fs, p, file) == [q \in DOMAIN fs \cup {p} |-> IF q = p THEN file ELSE fs[q]]

no_files == [q \in {} |-> new_tar]

NoError == [type |-> "none", line |-> 0]

VARIABLES
  input_fs,           \* chunk directory path -> what the directory holds
  caption,            \* the --caption argument
  caller,             \* "main", or "direct" for a call of process_chunk_dir
  pc,                 \* control position
  error,              \* the exception that ended the run, with its line
  queue,              \* main: the sorted paths the for loop has yet to visit
  chunk_dir,          \* process_chunk_dir: its argument
  json_data,          \* ... the loaded sidecar
  zip,                \* ... the namelist of the opened zip
  chunk_num,
  jpg_members,
  i,
  member,
  image_key,
  metadata,
  output_dir_exists,
  outfs,              \* the files of the output directory, by path
  calls,              \* history: the arguments of the calls of process_chunk_dir
  before              \* history: outfs when the current call began

vars ==
  <<input_fs, caption, caller, pc, error, queue, chunk_dir, json_data, zip,
    chunk_num, jpg_members, i, member, image_key, metadata, output_dir_exists,
    outfs, calls, before>>

inputs == <<input_fs, caption, caller>>

chunk_locals == <<json_data, zip, chunk_num, jpg_members, i, metadata>>

raise(type, line) ==
  /\ error' = [type |-> type, line |-> line]
  /\ pc' = "failed"

(***************************************************************************)
(* process_chunk_dir                                                       *)
(***************************************************************************)
\* lines 17-35: up to the start of the loop over the members
process_chunk_dir_open ==
  /\ pc = "chunk_open"
  /\ output_dir_exists' = TRUE
  /\ UNCHANGED <<inputs, queue, chunk_dir, member, image_key, calls, before>>
  /\ LET dir == input_fs[chunk_dir]
     IN IF dir.jsons = <<>>
        THEN raise("IndexError", 18) /\ UNCHANGED <<chunk_locals, outfs>>
        ELSE IF dir.zips = <<>>
        THEN raise("IndexError", 19) /\ UNCHANGED <<chunk_locals, outfs>>
        ELSE IF chunk_dirname_raises(chunk_dir)
        THEN raise("ValueError", 20) /\ UNCHANGED <<chunk_locals, outfs>>
        ELSE /\ json_data' = dir.jsons[1]
             /\ zip' = dir.zips[1]
             /\ chunk_num' = chunk_dirname_to_num(chunk_dir)
             /\ outfs' = write(outfs, tar_path(chunk_num'), new_tar)
             /\ jpg_members' = jpg_members_of(zip')
             /\ metadata' = empty_metadata
             /\ i' = 0
             /\ pc' = "chunk_loop"
             /\ UNCHANGED error

\* lines 38-77: one iteration of the loop
process_chunk_dir_member ==
  /\ pc = "chunk_loop"
  /\ i < Len(jpg_members)
  /\ UNCHANGED <<inputs, queue, chunk_dir, json_data, zip, chunk_num,
                 jpg_members, output_dir_exists, calls, before>>
  /\ member' = jpg_members[i + 1]
  /\ image_key' = image_key_of(member')
  /\ \E uid \in {<<"u", "1">>, <<"u", "2">>} :
       LET new_basename == new_basename_of(chunk_num, i)
           new_tar_file == tar_path(chunk_num)
           tar == outfs[new_tar_file]
           tar_plus(entries) ==
             write(outfs, new_tar_file,
                   [tar EXCEPT !.entries = tar.entries \o entries])
       IN IF image_key' \notin DOMAIN json_data
          THEN raise("KeyError", 40) /\ UNCHANGED <<outfs, metadata, i>>
          ELSE LET json_obj == json_data[image_key']
               IN IF caption \notin DOMAIN json_obj
                  THEN /\ raise("KeyError", 51)
                       /\ outfs' = tar_plus(<<jpg_entry_of(new_basename, member')>>)
                       /\ UNCHANGED <<metadata, i>>
                  ELSE IF json_obj[caption] = JNull
                  THEN /\ raise("AttributeError", 52)
                       /\ outfs' = tar_plus(<<jpg_entry_of(new_basename, member')>>)
                       /\ UNCHANGED <<metadata, i>>
                  ELSE LET metadata_member ==
                             metadata_member_of(uid, new_basename,
                                                json_obj[caption], json_obj)
                       IN /\ outfs' = tar_plus(tar_entries_of(new_basename, member',
                                                          metadata_member))
                          /\ metadata' = append_metadata(metadata, metadata_member)
                          /\ i' = i + 1
                          /\ UNCHANGED <<pc, error>>

\* lines 26 and 78: the with block ends, the tar is closed, metadata returned
process_chunk_dir_return ==
  /\ pc = "chunk_loop"
  /\ i = Len(jpg_members)
  /\ outfs' = write(outfs, tar_path(chunk_num),
                    [outfs[tar_path(chunk_num)] EXCEPT !.complete = TRUE])
  /\ pc' = IF caller = "main" THEN "save_parquet" ELSE "returned"
  /\ UNCHANGED <<inputs, error, queue, chunk_dir, chunk_locals, member,
                 image_key, output_dir_exists, calls, before>>

(***************************************************************************)
(* main                                                                    *)
(***************************************************************************)
InputDirectory == <<"d">>

Str_images == <<"i", "m", "a", "g", "e", "s", "/">>

\* glob(join(input_directory, "images/*"))
glob_images == SetToSeq(DOMAIN input_fs)

\* line 113: the for loop's iterable
main_glob ==
  /\ pc = "main_start"
  /\ queue' = sorted(glob_images)
  /\ pc' = "main_loop"
  /\ UNCHANGED <<inputs, error, chunk_dir, chunk_locals, member, image_key,
                 output_dir_exists, outfs, calls, before>>

\* lines 114-115
main_skip ==
  /\ pc = "main_loop"
  /\ queue # <<>>
  /\ ~input_fs[Head(queue)].isdir
  /\ queue' = Tail(queue)
  /\ UNCHANGED <<inputs, pc, error, chunk_dir, chunk_locals, member, image_key,
                 output_dir_exists, outfs, calls, before>>

\* lines 116-118
main_call ==
  /\ pc = "main_loop"
  /\ queue # <<>>
  /\ input_fs[Head(queue)].isdir
  /\ queue' = Tail(queue)
  /\ chunk_dir' = Head(queue)
  /\ calls' = Append(calls, Head(queue))
  /\ before' = outfs
  /\ pc' = "chunk_open"
  /\ UNCHANGED <<inputs, error, chunk_locals, member, image_key,
                 output_dir_exists, outfs>>

\* lines 119-122
main_save_parquet ==
  /\ pc = "save_parquet"
  /\ outfs' = write(outfs, parquet_path(chunk_dirname_to_num(chunk_dir)),
                    save_metadata_to_parquet(metadata))
  /\ pc' = "save_stats"
  /\ UNCHANGED <<inputs, error, queue, chunk_dir, chunk_locals, member,
                 image_key, output_dir_exists, calls, before>>

\* line 123
main_save_stats ==
  /\ pc = "save_stats"
  /\ outfs' = write(outfs, stats_path(chunk_dirname_to_num(chunk_dir)),
                    save_stats_json(first_column_len(metadata)))
  /\ pc' = "main_loop"
  /\ UNCHANGED <<inputs, error, queue, chunk_dir, chunk_locals, member,
                 image_key, output_dir_exists, calls, before>>

\* the loop is exhausted
main_return ==
  /\ pc = "main_loop"
  /\ queue = <<>>
  /\ pc' = "done"
  /\ UNCHANGED <<inputs, error, queue, chunk_dir, chunk_locals, member,
                 image_key, output_dir_exists, outfs, calls, before>>

(***************************************************************************)
(* Inputs.                                                                 *)
(***************************************************************************)
\* sidecar objects: filename, url and the caption fields, each value derived
\* from the key so that the objects of two keys differ in every field
sidecar_object(k, shape) ==
  LET full == [filename |-> <<"f">> \o k,
               url |-> <<"u">> \o k,
               cogvlm_caption |-> <<"c">> \o k,
               llava_caption |-> <<"l", "e_acute">> \o k,
               alt_txt |-> <<"a">> \o k]
  IN CASE shape = "full" -> full
       [] shape = "no_cogvlm" ->
            [f \in DOMAIN full \ {"cogvlm_caption"} |-> full[f]]
       [] shape = "null_alt" -> [full EXCEPT !.alt_txt = JNull]

\* the sidecar with keys K whose object under key w (if w is a key) has the
\* given shape
sidecar(K, w, shape) ==
  [k \in K |-> sidecar_object(k, IF k = w THEN shape ELSE "full")]

SidecarKeys == {<<>>, <<"1">>, <<"1", "0">>}

Sidecars ==
  {sidecar(K, <<"none">>, "full") : K \in SUBSET SidecarKeys}
  \cup {sidecar(K \cup {<<"1">>}, <<"1">>, shape)
         : K \in SUBSET SidecarKeys, shape \in {"no_cogvlm", "null_alt"}}

MemberNames ==
  { <<"0">> \o Str_jpg, <<"1">> \o Str_jpg, <<"0", "1">> \o Str_jpg,
    <<"0", "/", "1", "0">> \o Str_jpg, <<"1">> \o Str_txt }

\* zip namelists: the members in any order, no name twice
Namelists(names, n) ==
  UNION {{z \in [1..k -> names] : \A a, b \in 1..k : z[a] = z[b] => a = b}
         : k \in 0..n}

\* a second *.json or *.zip file in the chunk directory
DecoyJson == sidecar({}, <<"none">>, "full")

DecoyZip == << <<"1", "0">> \o Str_jpg >>

\* the chunk directories holding sidecar s and zip z: exactly one of each, or
\* one of the two globs with no match or with two matches in either order
chunk_dirs_of(s, z) ==
  {[isdir |-> TRUE, jsons |-> js, zips |-> <<z>>]
     : js \in {<<s>>, <<>>, <<s, DecoyJson>>, <<DecoyJson, s>>}}
  \cup {[isdir |-> TRUE, jsons |-> <<s>>, zips |-> zs]
          : zs \in {<<>>, <<z, DecoyZip>>, <<DecoyZip, z>>}}

plain_file == [isdir |-> FALSE, jsons |-> <<>>, zips |-> <<>>]

InitLocals ==
  /\ error = NoError
  /\ json_data = DecoyJson
  /\ zip = <<>>
  /\ chunk_num = 0
  /\ jpg_members = <<>>
  /\ i = 0
  /\ member = <<>>
  /\ image_key = <<>>
  /\ metadata = empty_metadata
  /\ output_dir_exists = FALSE
  /\ outfs = no_files
  /\ before = no_files

(***************************************************************************)
(* main on an input directory.                                             *)
(***************************************************************************)
\* names under images/
EntryNames ==
  { <<"c", "_", "1">>, <<"c", "_", "0", "1">>, <<"c", "_", "2">>,
    <<"c", "_", "x">> }

key_1 == <<"1">>

key_10 == <<"1", "0">>

\* what a chunk directory under images/ may hold
ChunkLibrary ==
  LET s1 == sidecar({key_1}, <<"none">>, "full")
      s2 == sidecar({key_1, key_10}, <<"none">>, "full")
      m1 == key_1 \o Str_jpg
      m10 == key_10 \o Str_jpg
  IN { [isdir |-> TRUE, jsons |-> <<s1>>, zips |-> << <<m1>> >>],
       [isdir |-> TRUE, jsons |-> <<s2>>, zips |-> << <<m10, m1>> >>],
       [isdir |-> TRUE, jsons |-> <<s1>>, zips |-> << <<m10, m1>> >>],
       [isdir |-> TRUE, jsons |-> <<s1>>, zips |-> <<>>],
       [isdir |-> TRUE, jsons |-> <<s1>>, zips |-> << << <<"1">> \o Str_txt >> >>] }

images_path(name) == join(InputDirectory, Str_images \o name)

Init ==
  /\ caller = "main"
  /\ pc = "main_start"
  /\ caption \in Captions
  /\ \E names \in SUBSET EntryNames :
       /\ Cardinality(names) <= MaxEntries
       /\ input_fs \in [{images_path(n) : n \in names}
                          -> ChunkLibrary \cup {plain_file}]
  /\ queue = <<>>
  /\ chunk_dir = <<>>
  /\ calls = <<>>
  /\ InitLocals

Next ==
  \/ main_glob
  \/ main_skip
  \/ main_call
  \/ process_chunk_dir_open
  \/ process_chunk_dir_member
  \/ process_chunk_dir_return
  \/ main_save_parquet
  \/ main_save_stats
  \/ main_return

Spec == Init /\ [][Next]_vars

(***************************************************************************)
(* A call of process_chunk_dir on one chunk directory.                     *)
(***************************************************************************)
ChunkDirCases == { <<"c", "_", "1">>, <<"c", "_", "1", "2">> }

InitDirect(paths) ==
  /\ caller = "direct"
  /\ pc = "chunk_open"
  /\ queue = <<>>
  /\ chunk_dir \in paths
  /\ calls = <<chunk_dir>>
  /\ InitLocals

InitChunk ==
  /\ InitDirect(ChunkDirCases)
  /\ caption \in Captions
  /\ \E s \in Sidecars, z \in Namelists(MemberNames, MaxMembers) :
       \E dir \in chunk_dirs_of(s, z) :
         input_fs = [p \in {chunk_dir} |-> dir]

NextChunk ==
  \/ process_chunk_dir_open
  \/ process_chunk_dir_member
  \/ process_chunk_dir_return

SpecChunk == InitChunk /\ [][NextChunk]_vars

(***************************************************************************)
(* A call of process_chunk_dir on every short chunk directory path.        *)
(***************************************************************************)
PathChars == {"c", "_", "/", "0", "1", "-"}

ChunkDirPaths == UNION {[1..k -> PathChars] : k \in 0..MaxPathLen}

InitDirname ==
  /\ InitDirect(ChunkDirPaths)
  /\ caption = "cogvlm_caption"
  /\ \E dir \in ChunkLibrary : input_fs = [p \in {chunk_dir} |-> dir]

SpecDirname == InitDirname /\ [][NextChunk]_vars

(***************************************************************************)
(* Vocabulary of the properties.                                           *)
(***************************************************************************)
\* the .jpg members of the opened zip, as a set
JpgSet == {zip[k] : k \in {h \in 1..Len(zip) : endswith(zip[h], Str_jpg)}}

\* K: the number of .jpg members of the opened zip
K == Cardinality({h \in 1..Len(zip) : endswith(zip[h], Str_jpg)})

\* the .jpg member at sorted position j (from 0): j members sort before it
MemberAt(j) ==
  CHOOSE m \in JpgSet : Cardinality({n \in JpgSet : LexLess(n, m)}) = j

\* the tar was opened by the current call
PastOpen ==
  \/ pc \in {"chunk_loop", "returned", "save_parquet", "save_stats"}
  \/ pc = "failed" /\ error.line >= 40

CurTar == outfs[tar_path(chunk_num)]

Columns == {"uid", "key", "text", "original_image_filename", "url"}

\* the sidecar has an entry under the key of every .jpg member
EveryMemberHasEntry == \A m \in JpgSet : image_key_of(m) \in DOMAIN json_data

\* ... and every such entry carries the selected caption as a string
EveryEntryHasCaption ==
  \A m \in JpgSet :
    LET obj == json_data[image_key_of(m)]
    IN caption \in DOMAIN obj /\ obj[caption] # JNull

\* s is n >= 0 written with exactly w decimal digits
IsPadded(s, w, n) ==
  /\ Len(s) = w
  /\ \A k \in 1..w : s[k] \in DigitChars
  /\ DecValue(s) = n

\* name is <chunk index, 3 digits><j, 6 digits><ext>
IsNumbered(name, j, ext) ==
  /\ Len(name) = 9 + Len(ext)
  /\ IsPadded(SubSeq(name, 1, 3), 3, chunk_num)
  /\ IsPadded(SubSeq(name, 4, 9), 6, j)
  /\ SubSeq(name, 10, Len(name)) = ext

\* the tar holds, for members 0..n-1, a .jpg, a .txt and a .json in that order
TripleLayout(n) ==
  /\ Len(CurTar.entries) = 3 * n
  /\ \A j \in 0..(n - 1) :
       /\ IsNumbered(CurTar.entries[3 * j + 1].name, j, Str_jpg)
       /\ IsNumbered(CurTar.entries[3 * j + 2].name, j, Str_txt)
       /\ IsNumbered(CurTar.entries[3 * j + 3].name, j, Str_json)

RowCount(n) == \A c \in Columns : Len(metadata[c]) = n

(***************************************************************************)
(* C1                                                                      *)
(***************************************************************************)
\* C1 as stated: when the sidecar has an entry for each of the K .jpg
\* members, process_chunk_dir finishes with a tar of exactly 3K entries
\* (.jpg, .txt, .json per member, in that order) and K rows in every column.
C1_AsStated ==
  (PastOpen /\ EveryMemberHasEntry) =>
     /\ pc # "failed"
     /\ pc = "returned" => (CurTar.complete /\ TripleLayout(K) /\ RowCount(K))

\* C1 amended: when the sidecar has, for each of the K .jpg members, an entry
\* that carries the selected caption field with a string value, the tar holds
\* three entries and the accumulator one row per member processed so far, and
\* process_chunk_dir finishes with exactly 3K entries and K rows.
C1_Amended ==
  (PastOpen /\ EveryMemberHasEntry /\ EveryEntryHasCaption) =>
     /\ pc # "failed"
     /\ TripleLayout(i) /\ RowCount(i)
     /\ pc = "returned" => (i = K /\ CurTar.complete)

C1_Witness ==
  /\ pc = "returned"
  /\ K = 2
  /\ EveryMemberHasEntry /\ EveryEntryHasCaption
  /\ Len(CurTar.entries) = 6

(***************************************************************************)
(* C2                                                                      *)
(***************************************************************************)
\* C2: sequence numbers are 0..K-1 in ascending order of the member names:
\* the tar entry numbered j holds the bytes of the member at sorted position
\* j, whatever the order of the zip's namelist, under the name
\* <chunk index, 3 digits><j, 6 digits>.jpg.
C2_SequenceNumbers ==
  PastOpen =>
     /\ \A j \in 0..(i - 1) :
          /\ IsNumbered(CurTar.entries[3 * j + 1].name, j, Str_jpg)
          /\ CurTar.entries[3 * j + 1].data = zip_read(MemberAt(j))
          /\ metadata.key[j + 1] = SubSeq(CurTar.entries[3 * j + 1].name, 1, 9)
     /\ \A a, b \in 1..Len(CurTar.entries) :
          CurTar.entries[a].name = CurTar.entries[b].name => a = b
     /\ pc = "returned" => i = K

C2_Witness ==
  /\ pc = "returned"
  /\ i = 2
  /\ Len(zip) = 2
  /\ LexLess(zip[2], zip[1])
  /\ CurTar.entries[1].data = zip_read(zip[2])

(***************************************************************************)
(* C3                                                                      *)
(***************************************************************************)
\* C3 as stated: when the sidecar lacks the key of a member, processing fails
\* at that member and no tar holding the entries of only the members before
\* it remains at the chunk's output path.
C3_AsStated ==
  (pc = "failed" /\ error = [type |-> "KeyError", line |-> 40] /\ i >= 1) =>
     /\ member = jpg_members[i + 1]
     /\ ~(/\ tar_path(chunk_num) \in DOMAIN outfs
          /\ Len(CurTar.entries) = 3 * i)

(***************************************************************************)
(* C4                                                                      *)
(***************************************************************************)
\* C4 as stated: process_chunk_dir fails whenever the chunk directory does
\* not hold exactly one *.json and exactly one *.zip file.
C4_AsStated ==
  (/\ pc # "chunk_open"
   /\ \/ Len(input_fs[chunk_dir].jsons) # 1
      \/ Len(input_fs[chunk_dir].zips) # 1)
  => (pc = "failed" /\ error.line \in {18, 19})

(***************************************************************************)
(* C8                                                                      *)
(***************************************************************************)
\* the final path component of a member name without its .jpg
Stem(m) == LET f == split_last(m, "/") IN SubSeq(f, 1, Len(f) - Len(Str_jpg))

IsNumeral(s) == s # <<>> /\ \A k \in 1..Len(s) : s[k] \in DigitChars

\* C8 as stated: for a member whose stem is a zero-padded numeral of n >= 0
\* the key looked up is the plain decimal numeral of n.
C8_AsStated ==
  (member # <<>> /\ IsNumeral(Stem(member))) =>
     image_key = DecString(DecValue(Stem(member)))

(***************************************************************************)
(* C9                                                                      *)
(***************************************************************************)
\* the value of a field of a dumped JSON object
JsonField(obj, f) == obj[CHOOSE k \in 1..Len(obj) : obj[k][1] = f][2]

\* bytes.decode("utf-8")
RECURSIVE decode_utf8(_)
decode_utf8(b) ==
  IF b = <<>> THEN <<>>
  ELSE IF Len(b) >= 2 /\ b[1] = "xc3" /\ b[2] = "xa9"
       THEN <<"e_acute">> \o decode_utf8(SubSeq(b, 3, Len(b)))
       ELSE <<b[1]>> \o decode_utf8(Tail(b))

\* the entries of the tar named name
EntriesNamed(name) ==
  {k \in 1..Len(CurTar.entries) : CurTar.entries[k].name = name}

\* C9: for every row j, the tar entry <key_j>.json holds the row's uid, key,
\* text, original_image_filename and url, the entry <key_j>.txt holds that
\* text, which is the selected caption of the member's sidecar object, and
\* the rows are in the order of the sequence numbers.
C9_RowsMatchEntries ==
  PastOpen =>
    /\ RowCount(i)
    /\ \A j \in 1..i :
         LET key_j == metadata.key[j]
             obj == json_data[image_key_of(MemberAt(j - 1))]
         IN /\ IsNumbered(key_j, j - 1, <<>>)
            /\ EntriesNamed(key_j \o Str_json) = {3 * j}
            /\ EntriesNamed(key_j \o Str_txt) = {3 * j - 1}
            /\ EntriesNamed(key_j \o Str_jpg) = {3 * j - 2}
            /\ \A c \in Columns :
                 JsonField(CurTar.entries[3 * j].data, c) = metadata[c][j]
            /\ decode_utf8(CurTar.entries[3 * j - 1].data) = metadata.text[j]
            /\ metadata.text[j] = obj[caption]
            /\ metadata.original_image_filename[j] = obj.filename
            /\ metadata.url[j] = obj.url

C9_Witness ==
  /\ pc = "returned"
  /\ i = 2
  /\ caption = "llava_caption"
  /\ metadata.uid[1] # metadata.uid[2]
  /\ metadata.text[1] # metadata.text[2]

(***************************************************************************)
(* C7                                                                      *)
(***************************************************************************)
\* a path without its trailing slashes
Trimmed(p) ==
  LET keep == {k \in 1..Len(p) : p[k] # "/"}
  IN IF keep = {} THEN <<>>
     ELSE SubSeq(p, 1, CHOOSE k \in keep : \A h \in keep : h <= k)

\* the final path segment of a directory path
FinalSegment(p) == split_last(Trimmed(p), "/")

HasUnderscore(seg) == \E k \in 1..Len(seg) : seg[k] = "_"

\* the part of a segment after its last "_"
SuffixOf(seg) == split_last(seg, "_")

\* a decimal numeral with an optional sign
IsSignedNumeral(s) ==
  \/ IsNumeral(s)
  \/ s # <<>> /\ s[1] \in {"+", "-"} /\ IsNumeral(Tail(s))

NumeralValue(s) ==
  IF s[1] = "-" THEN 0 - DecValue(Tail(s))
  ELSE IF s[1] = "+" THEN DecValue(Tail(s))
  ELSE DecValue(s)

\* process_chunk_dir got as far as line 20
ReachedLine20 == pc # "chunk_open" /\ error.line \notin {18, 19}

RaisedValueError == pc = "failed" /\ error = [type |-> "ValueError", line |-> 20]

SuffixNumber(d) == NumeralValue(SuffixOf(FinalSegment(d)))

Triple(n) == {tar_path(n), parquet_path(n), stats_path(n)}

CallIndexes == 1..Len(calls)

\* C5 as stated: after a run without failure, two distinct chunk directories
\* never wrote the same output path, so there is one triple per directory.
C5_AsStated ==
  pc = "done" =>
    /\ \A a, b \in CallIndexes :
         a # b => Triple(SuffixNumber(calls[a]) - 1)
                    \cap Triple(SuffixNumber(calls[b]) - 1) = {}
    /\ Cardinality(DOMAIN outfs) = 3 * Len(calls)

\* C5 amended: after a run without failure the output directory holds the
\* triple of every chunk directory processed; directories with different
\* numeric suffixes have disjoint triples, so the run wrote one triple per
\* distinct suffix.
C5_Amended ==
  pc = "done" =>
    /\ UNION {Triple(SuffixNumber(calls[a]) - 1) : a \in CallIndexes}
         \subseteq DOMAIN outfs
    /\ \A a \in CallIndexes :
         LET n == SuffixNumber(calls[a]) - 1
         IN /\ outfs[tar_path(n)].kind = "tar"
            /\ outfs[parquet_path(n)].kind = "parquet"
            /\ outfs[stats_path(n)].kind = "stats"
    /\ \A a, b \in CallIndexes :
         SuffixNumber(calls[a]) # SuffixNumber(calls[b]) =>
           Triple(SuffixNumber(calls[a]) - 1)
             \cap Triple(SuffixNumber(calls[b]) - 1) = {}
    /\ Cardinality(UNION {Triple(SuffixNumber(calls[a]) - 1) : a \in CallIndexes})
         = 3 * Cardinality({SuffixNumber(calls[a]) : a \in CallIndexes})

C5_Witness ==
  /\ pc = "done"
  /\ Len(calls) = 2
  /\ SuffixNumber(calls[1]) # SuffixNumber(calls[2])
  /\ Cardinality(DOMAIN outfs) = 6

(***************************************************************************)
(* C6                                                                      *)
(***************************************************************************)
\* in file system fs the current chunk has its complete tar of 3K entries,
\* its parquet file of K rows and the stats file {count: K, successes: K}
ChunkWritten(fs) ==
  /\ Triple(chunk_num) \subseteq DOMAIN fs
  /\ fs[tar_path(chunk_num)].complete
  /\ Len(fs[tar_path(chunk_num)].entries) = 3 * K
  /\ \A c \in Columns : Len(fs[parquet_path(chunk_num)].table[c]) = K
  /\ fs[stats_path(chunk_num)].json = << <<"count", K>>, <<"successes", K>> >>

IsStatsPath(p) == endswith(p, Str_stats_json)

\* C6: a stats file is written only by the step that follows the writing of
\* the chunk's parquet file, and after that step it is exactly
\* {count: K, successes: K} beside the chunk's complete tar and its parquet.
C6_StatsOnlyWhenComplete ==
  [][/\ (\E p \in DOMAIN outfs' :
            /\ IsStatsPath(p)
            /\ (p \notin DOMAIN outfs \/ outfs'[p] # outfs[p]))
         => pc = "save_stats"
     /\ (pc = "save_stats" /\ pc' # "save_stats")
         => (/\ ChunkWritten(outfs')
             /\ parquet_path(chunk_num) \in DOMAIN outfs
             /\ outfs[tar_path(chunk_num)].complete
             /\ \A p \in DOMAIN outfs :
                  p # stats_path(chunk_num) => outfs'[p] = outfs[p])]_vars

C6_Witness ==
  /\ pc = "main_loop"
  /\ K = 2
  /\ ChunkWritten(outfs)

(***************************************************************************)
(* C10                                                                     *)
(***************************************************************************)
InChunk == pc \in {"chunk_open", "chunk_loop", "save_parquet", "save_stats", "failed"}

\* main visits the directories one at a time in ascending path order and
\* skips what is not a directory
AscendingOrder ==
  pc # "main_start" =>
    /\ \A a, b \in CallIndexes : a < b => LexLess(calls[a], calls[b])
    /\ \A a, b \in 1..Len(queue) : a < b => LexLess(queue[a], queue[b])
    /\ \A a \in CallIndexes : \A b \in 1..Len(queue) : LexLess(calls[a], queue[b])
    /\ \A a \in CallIndexes : input_fs[calls[a]].isdir
    /\ \A d \in DOMAIN input_fs :
         input_fs[d].isdir =>
           \/ \E a \in CallIndexes : calls[a] = d
           \/ \E b \in 1..Len(queue) : queue[b] = d
    /\ InChunk => (calls # <<>> /\ chunk_dir = calls[Len(calls)])

\* path p is as it was when the failing call began
Untouched(p) ==
  /\ p \in DOMAIN outfs <=> p \in DOMAIN before
  /\ p \in DOMAIN outfs => outfs[p] = before[p]

\* the failure ends the run; the failing chunk leaves its parquet and stats
\* paths alone and creates nothing but its own tar
AbortsRun ==
  /\ ~ENABLED Next
  /\ error.line >= 20 =>
       /\ ~chunk_dirname_raises(chunk_dir) =>
            /\ Untouched(parquet_path(SuffixNumber(chunk_dir) - 1))
            /\ Untouched(stats_path(SuffixNumber(chunk_dir) - 1))
            /\ DOMAIN outfs \ DOMAIN before
                 \subseteq {tar_path(SuffixNumber(chunk_dir) - 1)}
       /\ chunk_dirname_raises(chunk_dir) => outfs = before
  /\ error.line < 20 => outfs = before

\* C10 as stated: chunks are processed in ascending path order, a failure
\* aborts the run, writes no parquet or stats file for the failing chunk and
\* nothing for later chunks, and leaves the files of the chunks completed
\* before it unchanged.
C10_AsStated ==
  /\ AscendingOrder
  /\ pc = "failed" =>
       /\ AbortsRun
       /\ \A a \in 1..(Len(calls) - 1) :
            \A p \in Triple(SuffixNumber(calls[a]) - 1) :
              p \in DOMAIN outfs /\ Untouched(p)

\* C10 amended: ... and leaves the files of the chunks completed before it
\* unchanged, except those of a chunk whose numeric suffix equals the failing
\* chunk's: the failing chunk's truncated tar replaces that chunk's tar.
C10_Amended ==
  /\ AscendingOrder
  /\ pc = "failed" =>
       /\ AbortsRun
       /\ \A a \in 1..(Len(calls) - 1) :
            \A p \in Triple(SuffixNumber(calls[a]) - 1) :
              /\ p \in DOMAIN outfs
              /\ \/ Untouched(p)
                 \/ /\ error.line >= 40
                    /\ SuffixNumber(calls[a]) = SuffixNumber(chunk_dir)
                    /\ p = tar_path(SuffixNumber(calls[a]) - 1)
                    /\ ~outfs[p].complete

C10_Witness ==
  /\ pc = "failed"
  /\ Len(calls) = 2
  /\ queue # <<>>
  /\ error = [type |-> "KeyError", line |-> 40]
  /\ i = 1
  /\ Len(CurTar.entries) = 3
  /\ tar_path(chunk_num) \notin DOMAIN before
  /\ DOMAIN before # {}

=============================================================================
